---- MODULE Spec2Model ----
(***************************************************************************)
(* State-machine model of the CLARK entity classes: LearningObject,       *)
(* LearningOutcome, LearningGoal, AssessmentPlan and StandardOutcome.      *)
(* Every method is an operator that maps the receiver (and the call's      *)
(* inputs) to a result record                                              *)
(*     [o |-> receiver after the call, err |-> error thrown or NoError,    *)
(*      val |-> <<>> for undefined, <<v>> for the returned value v]        *)
(* and an action that applies it to the object under test.  The variable   *)
(* ret holds the last call: its name, its argument, the error it threw,    *)
(* the value it returned, and the LearningObject's collections as they     *)
(* were before the call.  subject names the class under test: lo is the   *)
(* LearningObject, old the older LearningObject that numbers its outcomes, *)
(* oc the LearningOutcome, toc the tagged LearningOutcome, ap the          *)
(* AssessmentPlan and so the StandardOutcome.                              *)
(***************************************************************************)
EXTENDS Integers, Sequences, FiniteSets, TLC

VARIABLES subject, clock, lo, old, oc, toc, ap, so, ret

vars == <<subject, clock, lo, old, oc, toc, ap, so, ret>>

(***************************************************************************)
(* Bounds of the model.                                                    *)
(***************************************************************************)
\* longest string a caller passes to a text setter
MaxStr == 2
\* largest value of the wall clock (Date.now())
MaxClock == 2
\* indices passed to the remove methods range over -MaxIndex .. MaxIndex
MaxIndex == 2
\* most elements held by the four collections of one LearningObject together
MaxItems == 2
\* most goals, and most outcomes, the older LearningObject holds
MaxOwned == 3
\* frames the call stack holds before the engine throws RangeError
MaxStack == 3

(***************************************************************************)
(* JavaScript values and helpers.                                          *)
(***************************************************************************)
NoError == "none"

Undefined == <<>>

Min(a, b) == IF a < b THEN a ELSE b

Max(a, b) == IF a > b THEN a ELSE b

Chars == {"a", " "}

\* strings are sequences of characters
Strings == UNION {[1..n -> Chars] : n \in 0..MaxStr}

RECURSIVE TrimStart(_)
TrimStart(s) ==
    IF s # <<>> /\ Head(s) = " " THEN TrimStart(Tail(s)) ELSE s

RECURSIVE TrimEnd(_)
TrimEnd(s) ==
    IF s # <<>> /\ s[Len(s)] = " " THEN TrimEnd(SubSeq(s, 1, Len(s) - 1)) ELSE s

\* String.prototype.trim
Trim(s) == TrimEnd(TrimStart(s))

\* a string argument that may be null or undefined
Nullish == [null |-> TRUE, s |-> <<>>]

Str(s) == [null |-> FALSE, s |-> s]

\* Array.prototype.splice(index, 1) on a 0-based index: the array that is
\* left and the array of removed elements (at most one)
Splice(s, index) ==
    LET start == IF index < 0 THEN Max(Len(s) + index, 0) ELSE Min(index, Len(s))
        count == Min(1, Len(s) - start)
    IN  [rest    |-> SubSeq(s, 1, start) \o SubSeq(s, start + count + 1, Len(s)),
         removed |-> SubSeq(s, start + 1, start + count)]

\* Array.prototype.includes
Includes(s, v) == \E i \in 1..Len(s) : s[i] = v

Indices == (0 - MaxIndex)..MaxIndex

(***************************************************************************)
(* LearningObject (lib/learning-object/learning-object.ts).                *)
(***************************************************************************)
AcademicLevel ==
    {"elementary", "middle", "high", "undergraduate", "graduate",
     "post graduate", "community college", "training"}

validLengths == <<"nanomodule", "micromodule", "module", "unit", "course">>

validStatuses == <<"unpublished", "waiting", "reviewed", "denied", "published">>

\* acceptLength with the last valid length left out of the list
acceptLength_DropsCourse(length) == Includes(SubSeq(validLengths, 1, 4), length)

\* private acceptLength(length)
acceptLength(length) == Includes(validLengths, length)

\* private acceptStatus(status)
acceptStatus(status) == Includes(validStatuses, status)

\* acceptLevel that never reports the level as present
acceptLevel_NeverAdded(o, level) ==
    [alreadyAdded |-> FALSE, isValid |-> level \in AcademicLevel]

\* private acceptLevel(level): [alreadyAdded, isValid]
acceptLevel(o, level) ==
    [alreadyAdded |-> Includes(o.levels, level), isValid |-> level \in AcademicLevel]

\* private updateDate()
updateDate(o, now) == [o EXCEPT !.date = now]

Ok(o, val) == [o |-> o, err |-> NoError, val |-> val]

Throw(o, err) == [o |-> o, err |-> err, val |-> Undefined]

\* set name(name)
SetName(o, name, now) ==
    IF ~name.null
    THEN Ok(updateDate([o EXCEPT !.name = Trim(name.s)], now), Undefined)
    ELSE Throw(o, "INVALID_NAME")

\* a length setter that assigns and dates the object before it validates
SetLength_AssignsFirst(o, length, now) ==
    IF acceptLength(length)
    THEN Ok(updateDate([o EXCEPT !.length = length], now), Undefined)
    ELSE Throw(updateDate([o EXCEPT !.length = length], now), "INVALID_LENGTH")

\* set length(length)
SetLength(o, length, now) ==
    IF acceptLength(length)
    THEN Ok(updateDate([o EXCEPT !.length = length], now), Undefined)
    ELSE Throw(o, "INVALID_LENGTH")

\* addLevel(level)
AddLevel(o, level, now) ==
    LET a == acceptLevel(o, level)
    IN  IF ~a.alreadyAdded /\ a.isValid
        THEN Ok(updateDate([o EXCEPT !.levels = Append(@, level)], now), Undefined)
        ELSE IF a.alreadyAdded
             THEN Throw(o, "LEVEL_EXISTS")
             ELSE Throw(o, "INVALID_LEVEL")

\* removeLevel that only refuses to splice an empty array
RemoveLevel_GuardOff(o, index, now) ==
    IF Len(o.levels) > 0
    THEN LET sp == Splice(o.levels, index)
         IN  Ok([updateDate(o, now) EXCEPT !.levels = sp.rest], sp.removed)
    ELSE Throw(o, "INVALID_LEVELS")

\* removeLevel(index)
RemoveLevel(o, index, now) ==
    IF Len(o.levels) > 1
    THEN LET sp == Splice(o.levels, index)
         IN  Ok([updateDate(o, now) EXCEPT !.levels = sp.rest], sp.removed)
    ELSE Throw(o, "INVALID_LEVELS")

(***************************************************************************)
(* The taxonomy vocabulary (@cyber4all/clark-taxonomy): the bloom levels   *)
(* in iteration order and, per level, its verbs and assessment kinds.      *)
(***************************************************************************)
levels == <<"remember and understand", "apply and analyze">>

verbs(bloom) ==
    IF bloom = "remember and understand" THEN <<"define", "describe">>
    ELSE <<"apply", "describe">>

assessments(bloom) ==
    IF bloom = "remember and understand" THEN <<"quiz", "essay">>
    ELSE <<"project", "essay">>

\* the lengths of the taxonomy, which the older LearningObject validates against
lengths == <<"nanomodule", "micromodule", "module", "unit", "course">>

\* new LearningGoal(text)
NewLearningGoal(text) == [text |-> text]

\* new LearningOutcome() of lib/learning-outcome/learning-outcome.ts
NewLearningOutcome ==
    [bloom    |-> levels[1],
     verb     |-> verbs(levels[1])[1],
     text     |-> <<>>,
     mappings |-> <<>>]

\* addGoal(text)
AddGoal(o, text) ==
    LET goal == NewLearningGoal(text)
    IN  Ok([o EXCEPT !.goals = Append(@, goal)], <<Len(o.goals) + 1 - 1>>)

\* removeGoal that pops the last goal whatever the index
RemoveGoal_Pops(o, index) ==
    LET sp == Splice(o.goals, Len(o.goals) - 1)
    IN  Ok([o EXCEPT !.goals = sp.rest], sp.removed)

\* removeGoal(index)
RemoveGoal(o, index) ==
    LET sp == Splice(o.goals, index)
    IN  Ok([o EXCEPT !.goals = sp.rest], sp.removed)

\* addOutcome(outcome?): outcome is <<>> when the argument is left out
AddOutcome(o, outcome) ==
    LET addingOutcome == IF outcome # <<>> THEN outcome[1] ELSE NewLearningOutcome
    IN  Ok([o EXCEPT !.outcomes = Append(@, addingOutcome)], <<Len(o.outcomes) + 1 - 1>>)

\* removeOutcome(index)
RemoveOutcome(o, index) ==
    LET sp == Splice(o.outcomes, index)
    IN  Ok([o EXCEPT !.outcomes = sp.rest], sp.removed)

\* set materials(material)
SetMaterials(o, material) == Ok([o EXCEPT !.materials = material], Undefined)

\* addChild that returns what push returns, the new length
AddChild_ReturnsLength(o, object) ==
    Ok([o EXCEPT !.children = Append(@, object)], <<Len(o.children) + 1>>)

\* addChild(object)
AddChild(o, object) ==
    Ok([o EXCEPT !.children = Append(@, object)], <<Len(o.children) + 1 - 1>>)

\* removeChild(index)
RemoveChild(o, index) ==
    LET sp == Splice(o.children, index)
    IN  Ok([o EXCEPT !.children = sp.rest], sp.removed)

\* addContributor(contributor)
AddContributor(o, contributor) ==
    Ok([o EXCEPT !.contributors = Append(@, contributor)], <<Len(o.contributors) + 1 - 1>>)

\* removeContributor(index)
RemoveContributor(o, index) ==
    LET sp == Splice(o.contributors, index)
    IN  Ok([o EXCEPT !.contributors = sp.rest], sp.removed)

\* a status setter that assigns any accepted status, published or not
SetStatusAt_Reassigns(o, status, depth) ==
    IF acceptStatus(status)
    THEN Ok([o EXCEPT !.status = status], Undefined)
    ELSE Throw(o, "INVALID_STATUS")

\* set status(status) and publish() call each other; depth counts the frames
\* on the call stack, and the engine throws RangeError when it is full
RECURSIVE SetStatusAt(_, _, _)
RECURSIVE PublishAt(_, _)
SetStatusAt(o, status, depth) ==
    IF depth > MaxStack THEN Throw(o, "RangeError")
    ELSE IF acceptStatus(status)
    THEN IF o.status = "published"
         THEN LET r == PublishAt(o, depth + 1)
              IN  IF r.err # NoError THEN Throw(o, r.err) ELSE Ok(r.o, Undefined)
         ELSE Ok([o EXCEPT !.status = status], Undefined)
    ELSE Throw(o, "INVALID_STATUS")

PublishAt(o, depth) ==
    IF depth > MaxStack THEN Throw(o, "RangeError")
    ELSE LET r == SetStatusAt(o, "published", depth + 1)
         IN  IF r.err # NoError THEN Throw(o, r.err)
             ELSE Ok([r.o EXCEPT !.published = TRUE], Undefined)

\* set status(status)
SetStatus(o, status) == SetStatusAt(o, status, 1)

\* publish()
Publish(o) == PublishAt(o, 1)

\* unpublish()
Unpublish(o) == Ok([o EXCEPT !.published = FALSE], Undefined)

\* the fields of a LearningObject as the constructor leaves them before
\* copyObject runs
BlankObject(now) ==
    [author       |-> "",
     name         |-> <<>>,
     date         |-> now,
     length       |-> "nanomodule",
     levels       |-> <<"undergraduate">>,
     goals        |-> <<>>,
     outcomes     |-> <<>>,
     materials    |-> "empty",
     children     |-> <<>>,
     contributors |-> <<>>,
     collection   |-> "",
     status       |-> "unpublished",
     metrics      |-> "zero",
     published    |-> FALSE,
     lock         |-> "none"]

\* a property read on a plain object: whether the key holds a value
Has(p, key) == key \in DOMAIN p

\* this.key = object.key || this.key, for a field written without a setter
Assign(o, p, key) ==
    IF Has(p, key) THEN Ok([o EXCEPT ![key] = p[key]], Undefined) ELSE Ok(o, Undefined)

\* private copyObject(object)
copyObject(o, p, now) ==
    LET \* r, or what F makes of r's object when r did not throw
        Bind(r, F(_)) == IF r.err # NoError THEN r ELSE F(r.o)
        \* array.map(v => F(this, v)): the calls in order, stopping at the
        \* first throw
        MapCalls(x, array, F(_, _)) ==
            LET after[i \in 0..Len(array)] ==
                    IF i = 0 THEN Ok(x, Undefined)
                    ELSE IF after[i - 1].err # NoError THEN after[i - 1]
                    ELSE F(after[i - 1].o, array[i])
            IN  after[Len(array)]
        \* (<T[]>object.key).map(v => F(this, v)): a TypeError when the key
        \* is missing
        MapKey(x, q, key, F(_, _)) ==
            IF Has(q, key) THEN MapCalls(x, q[key], F) ELSE Throw(x, "TypeError")
        name   == IF Has(p, "name") /\ p["name"] # <<>> THEN p["name"] ELSE o.name
        r1     == Bind(Assign(o, p, "author"), LAMBDA x : SetName(x, Str(name), now))
        r2     == Bind(r1, LAMBDA x : Assign(x, p, "date"))
        r3     == Bind(r2, LAMBDA x :
                      SetLength(x, IF Has(p, "length") /\ p["length"] # "" THEN p["length"] ELSE x.length, now))
        r4     == Bind(r3, LAMBDA x :
                      MapKey(x, p, "levels", LAMBDA y, level : AddLevel(y, level, now)))
        r5     == Bind(r4, LAMBDA x :
                      MapKey(x, p, "goals", LAMBDA y, goal : AddGoal(y, goal.text)))
        r6     == Bind(r5, LAMBDA x :
                      MapKey(x, p, "outcomes", LAMBDA y, outcome : AddOutcome(y, <<outcome>>)))
        r7     == Bind(r6, LAMBDA x :
                      SetMaterials(x, IF Has(p, "materials") THEN p["materials"] ELSE x.materials))
        r8     == Bind(r7, LAMBDA x : MapKey(x, p, "children", AddChild))
        r9     == Bind(r8, LAMBDA x : MapKey(x, p, "contributors", AddContributor))
        r10    == Bind(r9, LAMBDA x : Assign(x, p, "collection"))
        r11    == Bind(r10, LAMBDA x :
                      SetStatus(x, IF Has(p, "status") /\ p["status"] # "" THEN p["status"] ELSE x.status))
        r12    == Bind(r11, LAMBDA x : Assign(x, p, "metrics"))
        r13    == Bind(r12, LAMBDA x :
                      IF Has(p, "published") /\ p["published"]
                      THEN Ok([x EXCEPT !.published = TRUE], Undefined) ELSE Ok(x, Undefined))
        r14    == Bind(r13, LAMBDA x : Assign(x, p, "lock"))
    IN  IF r14.err # NoError THEN Throw(o, r14.err) ELSE Ok(r14.o, <<r14.o>>)

\* constructor(object?): p is <<>> when the argument is left out
NewLearningObject(p, now) ==
    IF p = <<>> THEN Ok(BlankObject(now), <<BlankObject(now)>>)
    ELSE copyObject(BlankObject(now), p[1], now)

\* static instantiate(object)
instantiate(p, now) == NewLearningObject(<<p>>, now)

\* JSON.parse(JSON.stringify(o)): the own fields of the instance under their
\* own names; the getters live on the prototype and are not copied, and a
\* field that holds undefined (the lock) is left out
JsonCopy(o) ==
    ("_author" :> o.author) @@ ("_name" :> o.name) @@ ("_date" :> o.date)
    @@ ("_length" :> o.length) @@ ("_levels" :> o.levels)
    @@ ("_goals" :> [i \in 1..Len(o.goals) |-> ("_text" :> o.goals[i].text)])
    @@ ("_outcomes" :> o.outcomes) @@ ("_materials" :> o.materials)
    @@ ("_children" :> o.children) @@ ("_contributors" :> o.contributors)
    @@ ("_collection" :> o.collection) @@ ("_status" :> o.status)
    @@ ("_metrics" :> o.metrics) @@ ("_published" :> o.published)

(***************************************************************************)
(* LearningOutcome (lib/learning-outcome/learning-outcome.ts).             *)
(***************************************************************************)
\* a bloom setter that replaces a verb the new level does not list
OutcomeSetBloom_RevalidatesVerb(o, bloom) ==
    IF bloom # "" /\ Includes(levels, bloom)
    THEN Ok([o EXCEPT !.bloom = bloom,
                      !.verb = IF Includes(verbs(bloom), @) THEN @ ELSE verbs(bloom)[1]],
            Undefined)
    ELSE Throw(o, "INVALID_BLOOM")

\* set bloom(bloom)
OutcomeSetBloom(o, bloom) ==
    IF bloom # "" /\ Includes(levels, bloom)
    THEN Ok([o EXCEPT !.bloom = bloom], Undefined)
    ELSE Throw(o, "INVALID_BLOOM")

\* the verb setter validating against the first level instead of this.bloom
OutcomeSetVerb_FirstLevel(o, verb) ==
    IF verb # "" /\ Includes(verbs(levels[1]), verb)
    THEN Ok([o EXCEPT !.verb = verb], Undefined)
    ELSE Throw(o, "INVALID_VERB")

\* set verb(verb)
OutcomeSetVerb(o, verb) ==
    IF verb # "" /\ Includes(verbs(o.bloom), verb)
    THEN Ok([o EXCEPT !.verb = verb], Undefined)
    ELSE Throw(o, "INVALID_VERB")

\* set text(text)
OutcomeSetText(o, text) ==
    IF ~text.null
    THEN Ok([o EXCEPT !.text = Trim(text.s)], Undefined)
    ELSE Throw(o, "INVALID_TEXT")

\* mapTo returning what push returns, the new length
OutcomeMapTo_ReturnsLength(o, mapping) ==
    Ok([o EXCEPT !.mappings = Append(@, mapping)], <<Len(o.mappings) + 1>>)

\* mapTo(mapping): push returns the new length, and one is taken off it
OutcomeMapTo(o, mapping) ==
    Ok([o EXCEPT !.mappings = Append(@, mapping)], <<Len(o.mappings) + 1 - 1>>)

\* unmap(i)
OutcomeUnmap(o, i) ==
    LET sp == Splice(o.mappings, i)
    IN  Ok([o EXCEPT !.mappings = sp.rest], sp.removed)

\* private copyOutcome(outcome): each assignment goes through its setter
copyOutcome(o, p) ==
    LET bloom == IF Has(p, "bloom") /\ p["bloom"] # "" THEN p["bloom"] ELSE o.bloom
        r1    == OutcomeSetBloom(o, bloom)
        verb  == IF Has(p, "verb") /\ p["verb"] # "" THEN p["verb"] ELSE r1.o.verb
        r2    == IF r1.err # NoError THEN r1 ELSE OutcomeSetVerb(r1.o, verb)
        text  == IF Has(p, "text") /\ p["text"] # <<>> THEN p["text"] ELSE r2.o.text
        r3    == IF r2.err # NoError THEN r2 ELSE OutcomeSetText(r2.o, Str(text))
        maps  == IF Has(p, "mappings") THEN p["mappings"] ELSE <<>>
    IN  IF r3.err # NoError THEN Throw(o, r3.err)
        ELSE Ok([r3.o EXCEPT !.mappings = @ \o maps], Undefined)

\* constructor(outcome?): p is <<>> when the argument is left out
LearningOutcomeFrom(p) ==
    IF p = <<>> THEN Ok(NewLearningOutcome, <<NewLearningOutcome>>)
    ELSE LET r == copyOutcome(NewLearningOutcome, p[1])
         IN  IF r.err # NoError THEN r ELSE Ok(r.o, <<r.o>>)

\* the properties a LearningOutcome instance shows through its getters
OutcomeProperties(o) ==
    ("bloom" :> o.bloom) @@ ("verb" :> o.verb) @@ ("text" :> o.text)
        @@ ("mappings" :> o.mappings)

\* the text setter SubmittableLearningOutcome would inherit unchanged
SubmittableSetText_Inherited(o, text) == OutcomeSetText(o, text)

\* set text(text) of SubmittableLearningOutcome: null, undefined and text that
\* is empty once trimmed are refused
SubmittableSetText(o, text) ==
    IF ~text.null /\ Trim(text.s) # <<>>
    THEN Ok([o EXCEPT !.text = Trim(text.s)], Undefined)
    ELSE Throw(o, "INVALID_TEXT")

\* new SubmittableLearningOutcome(outcome): a LearningOutcome built from the
\* properties of outcome, whose text must pass the setter above
SubmittableLearningOutcome(outcome) ==
    LET r == LearningOutcomeFrom(<<OutcomeProperties(outcome)>>)
    IN  IF r.err # NoError THEN r
        ELSE LET t == SubmittableSetText(r.o, Str(r.o.text))
             IN  IF t.err # NoError THEN Throw(r.o, t.err) ELSE Ok(t.o, <<t.o>>)

(***************************************************************************)
(* The older LearningObject (lib/learning-object.ts), its LearningGoal     *)
(* (learning-goal.ts) and its tagged LearningOutcome with AssessmentPlan   *)
(* and StandardOutcome (lib/learning-outcome.ts).                          *)
(***************************************************************************)
\* new LearningObject(author, name)
OldLearningObject(author, name) ==
    [author     |-> author,
     name       |-> name,
     date       |-> "",
     length     |-> lengths[1],
     goals      |-> <<>>,
     outcomes   |-> <<>>,
     repository |-> "empty"]

\* new LearningGoal(source): the back-reference is kept as the source's name
OldLearningGoal(source) == [source |-> source.name, text |-> ""]

\* the constructor's search loop: each scan of source.outcomes either meets
\* the candidate tag, increments it and starts over, or ends the search
RECURSIVE Rescan(_, _, _)
Rescan(outcomes, tag, scans) ==
    IF \E i \in 1..Len(outcomes) : outcomes[i].tag = tag
    THEN Rescan(outcomes, tag + 1, scans + 1)
    ELSE [tag |-> tag, scans |-> scans + 1]

\* a search that walks the list once, incrementing at each collision it meets
TagSearch_SinglePass(outcomes) ==
    LET at[i \in 0..Len(outcomes)] ==
            IF i = 0 THEN 0
            ELSE IF outcomes[i].tag = at[i - 1] THEN at[i - 1] + 1 ELSE at[i - 1]
    IN  [tag |-> at[Len(outcomes)], scans |-> 1]

\* lines 151-167: the tag the constructor settles on and the scans it took
TagSearch(outcomes) == Rescan(outcomes, 0, 0)

\* a constructor that numbers the outcome by the length of the list
TaggedOutcome_CountsOutcomes(source) ==
    [source      |-> [author |-> source.author, name |-> source.name, date |-> source.date],
     tag         |-> Len(source.outcomes),
     bloom       |-> levels[1],
     verb        |-> verbs(levels[1])[1],
     text        |-> <<>>,
     mappings    |-> <<>>,
     assessments |-> <<>>,
     strategies  |-> <<>>]

\* new LearningOutcome(source)
TaggedOutcome(source) ==
    [source      |-> [author |-> source.author, name |-> source.name, date |-> source.date],
     tag         |-> TagSearch(source.outcomes).tag,
     bloom       |-> levels[1],
     verb        |-> verbs(levels[1])[1],
     text        |-> <<>>,
     mappings    |-> <<>>,
     assessments |-> <<>>,
     strategies  |-> <<>>]

\* set length(length) of the older LearningObject
OldSetLength(o, length) ==
    IF Includes(lengths, length)
    THEN Ok([o EXCEPT !.length = length], Undefined)
    ELSE Throw(o, "INVALID_LENGTH")

\* addGoal()
OldAddGoal(o) ==
    LET goal == OldLearningGoal(o)
    IN  Ok([o EXCEPT !.goals = Append(@, goal)], <<goal>>)

\* removeGoal(i)
OldRemoveGoal(o, i) ==
    LET sp == Splice(o.goals, i)
    IN  Ok([o EXCEPT !.goals = sp.rest], sp.removed)

\* addOutcome()
OldAddOutcome(o) ==
    LET outcome == TaggedOutcome(o)
    IN  Ok([o EXCEPT !.outcomes = Append(@, outcome)], <<outcome>>)

\* removeOutcome(i)
OldRemoveOutcome(o, i) ==
    LET sp == Splice(o.outcomes, i)
    IN  Ok([o EXCEPT !.outcomes = sp.rest], sp.removed)

\* set name(name) of the older LearningObject: no validation. The goals
\* hold a reference to the object, kept here as its name, so they follow it
OldSetName(o, name) ==
    Ok([o EXCEPT !.name = name,
                 !.goals = [i \in 1..Len(o.goals) |-> [o.goals[i] EXCEPT !.source = name]]],
       Undefined)

\* set date(date) of the older LearningObject: no validation
OldSetDate(o, date) == Ok([o EXCEPT !.date = date], Undefined)

\* set text(text) of the i-th LearningGoal of o (0-based): no validation
GoalSetText(o, i, text) == Ok([o EXCEPT !.goals[i + 1].text = text], Undefined)

\* JSON.stringify(value): the text of a document of strings and arrays of
\* strings; a text is a string, never the document it was made from
JsonStringify(value) == [json |-> value]

\* JSON.parse(msg) of a well-formed text
JsonParse(msg) == msg.json

\* LearningGoal.serialize(entity): the text alone, never the source
GoalSerialize(entity) == JsonStringify([text |-> entity.text])

\* LearningGoal.unserialize(msg, parent)
GoalUnserialize(msg, parent) ==
    LET doc == JsonParse(msg)
    IN  [OldLearningGoal(parent) EXCEPT !.text = doc.text]

\* LearningObject.serialize(entity): each goal becomes a text of its own
\* inside the object's document; the author is left out. The entities
\* serialized here own no outcomes, so LearningOutcome.serialize is mapped
\* over an empty array
OldSerialize(entity) ==
    JsonStringify(
        [name       |-> entity.name,
         date       |-> entity.date,
         length     |-> entity.length,
         goals      |-> [i \in 1..Len(entity.goals) |-> GoalSerialize(entity.goals[i])],
         outcomes   |-> <<>>,
         repository |-> entity.repository])

\* LearningObject.unserialize(msg, parent): the fields are assigned
\* directly, not through the setters; every goal is rebuilt with the entity
\* under construction, its name, date and length already assigned, as parent
OldUnserialize(msg, parent) ==
    LET doc   == JsonParse(msg)
        blank == OldLearningObject(parent, "")
        named == [blank EXCEPT !.name = doc.name, !.date = doc.date,
                               !.length = doc.length]
        goals == [i \in 1..Len(doc.goals) |-> GoalUnserialize(doc.goals[i], named)]
    IN  [named EXCEPT !.goals = goals,
                      !.outcomes = <<>>,
                      !.repository = doc.repository]

\* a bloom setter that carries the new bloom into the assessment plans
TaggedSetBloom_Propagates(o, bloom) ==
    IF Includes(levels, bloom)
    THEN Ok([o EXCEPT !.bloom = bloom,
                      !.assessments = [k \in 1..Len(@) |-> [@[k] EXCEPT !.sourceBloom = bloom]]],
            Undefined)
    ELSE Throw(o, "INVALID_BLOOM")

\* set bloom(bloom) of the tagged outcome
TaggedSetBloom(o, bloom) ==
    IF Includes(levels, bloom)
    THEN Ok([o EXCEPT !.bloom = bloom], Undefined)
    ELSE Throw(o, "INVALID_BLOOM")

\* set verb(verb) of the tagged outcome: verbs[this.bloom] is undefined for a
\* bloom outside the taxonomy, and .has on it is a TypeError
TaggedSetVerb(o, verb) ==
    IF ~Includes(levels, o.bloom) THEN Throw(o, "TypeError")
    ELSE IF Includes(verbs(o.bloom), verb)
    THEN Ok([o EXCEPT !.verb = verb], Undefined)
    ELSE Throw(o, "INVALID_VERB")

\* set text(text) of the tagged outcome
TaggedSetText(o, text) == Ok([o EXCEPT !.text = text], Undefined)

\* the properties instantiate reads and deletes
KnownKeys ==
    {"_tag", "_bloom", "_verb", "_text", "_mappings", "_assessments", "_strategies"}

\* the accessors of the class that have no setter
GetterOnly ==
    {"source", "tag", "mappings", "assessments", "strategies",
     "author", "name", "date", "outcome"}

\* outcome[key] = value: an accessor with a setter runs the setter, an
\* accessor without one refuses the assignment with a TypeError (the module
\* is strict code), any other key becomes a property of the instance
SetProperty(o, key, value) ==
    IF key \in GetterOnly THEN Throw(o, "TypeError")
    ELSE IF key = "bloom" THEN TaggedSetBloom(o, value)
    ELSE IF key = "verb" THEN TaggedSetVerb(o, value)
    ELSE IF key = "text" THEN TaggedSetText(o, value)
    ELSE Ok((key :> value) @@ o, Undefined)

\* Object.keys(object).forEach(key => outcome[key] = object[key]) over the
\* keys left after the deletes; the first throw ends the call
RECURSIVE CopyInjected(_, _, _)
CopyInjected(o, props, keys) ==
    IF keys = {} THEN Ok(o, Undefined)
    ELSE LET key == CHOOSE k \in keys : TRUE
             r   == SetProperty(o, key, props[key])
         IN  IF r.err # NoError THEN r ELSE CopyInjected(r.o, props, keys \ {key})

\* static instantiate(source, object); the assessment plans and strategies
\* of object are rebuilt by classes outside this source, and are passed
\* empty. A property object lacks reads as undefined, and .map of an
\* undefined _assessments or _strategies is a TypeError thrown ahead of the
\* deletes. props is the caller's object as the call leaves it: the deletes
\* take the known properties out of it, before the injected ones are copied
TaggedInstantiate(source, props) ==
    LET Get(key) == IF Has(props, key) THEN props[key] ELSE Undefined
        outcome  == [TaggedOutcome(source) EXCEPT
                        !.tag = Get("_tag"),
                        !.bloom = Get("_bloom"),
                        !.verb = Get("_verb"),
                        !.text = Get("_text"),
                        !.mappings = Get("_mappings"),
                        !.assessments = Get("_assessments"),
                        !.strategies = Get("_strategies")]
        left     == [key \in DOMAIN props \ KnownKeys |-> props[key]]
        r        == CopyInjected(outcome, left, DOMAIN left)
    IN  IF ~Has(props, "_assessments") \/ ~Has(props, "_strategies")
        THEN [o |-> outcome, err |-> "TypeError", val |-> Undefined, props |-> props]
        ELSE IF r.err # NoError
        THEN [o |-> outcome, err |-> r.err, val |-> Undefined, props |-> left]
        ELSE [o |-> r.o, err |-> NoError, val |-> <<r.o>>, props |-> left]

\* new AssessmentPlan(source)
AssessmentPlan(source) ==
    [sourceBloom |-> source.bloom,
     plan        |-> assessments(source.bloom)[1],
     text        |-> <<>>]

\* set plan(plan)
PlanSetPlan(o, plan) ==
    IF Includes(assessments(o.sourceBloom), plan)
    THEN Ok([o EXCEPT !.plan = plan], Undefined)
    ELSE Throw(o, "INVALID_PLAN")

\* set text(text) of the assessment plan
PlanSetText(o, text) == Ok([o EXCEPT !.text = text], Undefined)

\* addAssessment()
TaggedAddAssessment(o) ==
    LET assessment == AssessmentPlan(o)
    IN  Ok([o EXCEPT !.assessments = Append(@, assessment)], <<assessment>>)

\* removeAssessment(i)
TaggedRemoveAssessment(o, i) ==
    LET sp == Splice(o.assessments, i)
    IN  Ok([o EXCEPT !.assessments = sp.rest], sp.removed)

\* outcome.assessments[k].plan = plan: the plan setter of the k-th assessment
\* plan the outcome holds (k is 1-based)
AssessmentSetPlan(o, k, plan) ==
    LET r == PlanSetPlan(o.assessments[k], plan)
    IN  [o |-> [o EXCEPT !.assessments[k] = r.o], err |-> r.err, val |-> r.val]

\* author && author.trim(), and the same test of the other three setters
Truthy(x) == ~x.null /\ x.s # <<>> /\ Trim(x.s) # <<>>

\* new StandardOutcome()
BlankStandardOutcome == [author |-> <<>>, name |-> <<>>, date |-> <<>>, outcome |-> <<>>]

\* get author()
StandardGetAuthor(o) == Ok(o, <<o.author>>)

\* get name(): returns this._author
StandardGetName(o) == Ok(o, <<o.author>>)

\* get date(): returns this._author
StandardGetDate(o) == Ok(o, <<o.author>>)

\* get outcome(): returns this._author
StandardGetOutcome(o) == Ok(o, <<o.author>>)

\* set author(author)
StandardSetAuthor(o, author) ==
    IF Truthy(author)
    THEN Ok([o EXCEPT !.author = author.s], Undefined)
    ELSE Throw(o, "INVALID_AUTHOR")

\* set name(name)
StandardSetName(o, name) ==
    IF Truthy(name)
    THEN Ok([o EXCEPT !.name = name.s], Undefined)
    ELSE Throw(o, "INVALID_NAME")

\* set date(date)
StandardSetDate(o, date) ==
    IF Truthy(date)
    THEN Ok([o EXCEPT !.date = date.s], Undefined)
    ELSE Throw(o, "INVALID_DATE")

\* set outcome(outcome)
StandardSetOutcome(o, outcome) ==
    IF Truthy(outcome)
    THEN Ok([o EXCEPT !.outcome = outcome.s], Undefined)
    ELSE Throw(o, "INVALID_OUTCOME")

\* mapTo(mapping) of the tagged outcome: the value of push, the new length
TaggedMapTo(o, mapping) ==
    Ok([o EXCEPT !.mappings = Append(@, mapping)], <<Len(o.mappings) + 1>>)

\* unmap(i) of the tagged outcome
TaggedUnmap(o, i) ==
    LET sp == Splice(o.mappings, i)
    IN  Ok([o EXCEPT !.mappings = sp.rest], sp.removed)

\* private copyOutcome(outcome) of StandardOutcome: each truthy property is
\* assigned through its setter
StandardCopyOutcome(o, p) ==
    LET Given(key) == Has(p, key) /\ p[key] # <<>>
        r1 == IF Given("author") THEN StandardSetAuthor(o, Str(p["author"]))
              ELSE Ok(o, Undefined)
        r2 == IF r1.err # NoError THEN r1
              ELSE IF Given("name") THEN StandardSetName(r1.o, Str(p["name"])) ELSE r1
        r3 == IF r2.err # NoError THEN r2
              ELSE IF Given("date") THEN StandardSetDate(r2.o, Str(p["date"])) ELSE r2
        r4 == IF r3.err # NoError THEN r3
              ELSE IF Given("outcome") THEN StandardSetOutcome(r3.o, Str(p["outcome"]))
              ELSE r3
    IN  IF r4.err # NoError THEN Throw(o, r4.err) ELSE Ok(r4.o, Undefined)

\* constructor(outcome?) of StandardOutcome: p is <<>> when the argument is
\* left out
StandardOutcomeFrom(p) ==
    IF p = <<>> THEN Ok(BlankStandardOutcome, <<BlankStandardOutcome>>)
    ELSE LET r == StandardCopyOutcome(BlankStandardOutcome, p[1])
         IN  IF r.err # NoError THEN r ELSE Ok(r.o, <<r.o>>)

(***************************************************************************)
(* The object under test and the calls made on it.                         *)
(***************************************************************************)
Collections(o) ==
    [goals |-> o.goals, outcomes |-> o.outcomes,
     children |-> o.children, contributors |-> o.contributors]

Call(op, arg, r) ==
    [op |-> op, arg |-> arg, err |-> r.err, val |-> r.val, pre |-> Collections(lo)]

NoCall == Call("new", <<>>, Ok(lo, Undefined))

\* time passes between two calls
Tick ==
    /\ clock < MaxClock
    /\ clock' = clock + 1
    /\ UNCHANGED <<subject, lo, old, oc, toc, ap, so, ret>>

\* one call on the LearningObject under test
CallObject(op, arg, r) ==
    /\ subject = "LearningObject"
    /\ lo' = r.o
    /\ ret' = Call(op, arg, r)
    /\ UNCHANGED <<subject, clock, old, oc, toc, ap, so>>

NameInputs == {Nullish} \cup {Str(s) : s \in Strings}

LengthInputs == {validLengths[i] : i \in 1..Len(validLengths)} \cup {"lecture"}

LevelInputs == {"undergraduate", "graduate", "high", "kindergarten"}

DoSetName ==
    \E name \in NameInputs :
        CallObject("name", name, SetName(lo, name, clock))

DoSetLength ==
    \E length \in LengthInputs :
        CallObject("length", length, SetLength(lo, length, clock))

DoAddLevel ==
    \E level \in LevelInputs :
        CallObject("addLevel", level, AddLevel(lo, level, clock))

DoRemoveLevel ==
    \E index \in Indices :
        CallObject("removeLevel", index, RemoveLevel(lo, index, clock))

Items(o) == Len(o.goals) + Len(o.outcomes) + Len(o.children) + Len(o.contributors)

GoalTexts == {"x", "y"}

\* an outcome built by the caller, and no argument at all
OutcomeInputs == {<<>>, <<[NewLearningOutcome EXCEPT !.text = <<"a">>]>>}

ChildInputs == {"child1", "child2"}

UserInputs == {"u1", "u2"}

MaterialInputs == {"empty", "notes"}

DoAddGoal ==
    /\ Items(lo) < MaxItems
    /\ \E text \in GoalTexts :
        CallObject("addGoal", text, AddGoal(lo, text))

DoRemoveGoal ==
    \E index \in Indices :
        CallObject("removeGoal", index, RemoveGoal(lo, index))

DoAddOutcome ==
    /\ Items(lo) < MaxItems
    /\ \E outcome \in OutcomeInputs :
        CallObject("addOutcome", outcome, AddOutcome(lo, outcome))

DoRemoveOutcome ==
    \E index \in Indices :
        CallObject("removeOutcome", index, RemoveOutcome(lo, index))

DoAddChild ==
    /\ Items(lo) < MaxItems
    /\ \E object \in ChildInputs :
        CallObject("addChild", object, AddChild(lo, object))

DoRemoveChild ==
    \E index \in Indices :
        CallObject("removeChild", index, RemoveChild(lo, index))

DoAddContributor ==
    /\ Items(lo) < MaxItems
    /\ \E contributor \in UserInputs :
        CallObject("addContributor", contributor, AddContributor(lo, contributor))

DoRemoveContributor ==
    \E index \in Indices :
        CallObject("removeContributor", index, RemoveContributor(lo, index))

DoSetMaterials ==
    \E material \in MaterialInputs :
        CallObject("materials", material, SetMaterials(lo, material))

\* the partial objects a caller builds by hand: every key is optional
Opt(key, values) == {<<>>} \cup {key :> v : v \in values}

PartialInputs ==
    {l @@ lv @@ rest :
        l    \in Opt("length", {"unit", "lecture"}),
        lv   \in Opt("levels", {<<>>, <<"graduate">>, <<"undergraduate">>}),
        rest \in {("goals" :> <<>>) @@ ("outcomes" :> <<>>)
                     @@ ("children" :> <<>>) @@ ("contributors" :> <<>>),
                 ("name" :> <<" ", "a">>) @@ ("goals" :> <<NewLearningGoal("x")>>)
                     @@ ("outcomes" :> <<NewLearningOutcome>>) @@ ("children" :> <<>>)
                     @@ ("contributors" :> <<"u1">>) @@ ("status" :> "reviewed")}}

\* LearningObject.instantiate(JSON.parse(JSON.stringify(lo))); the object it
\* returns becomes the object under test
DoInstantiateJson ==
    LET r == instantiate(JsonCopy(lo), clock)
    IN  CallObject("instantiate", "json",
                   IF r.err = NoError THEN Ok(r.o, Undefined) ELSE Throw(lo, r.err))

\* the objects new LearningObject() and new LearningObject(partial) build
Constructed(now) ==
    {r.o : r \in {c \in {NewLearningObject(p, now) :
                             p \in {<<>>} \cup {<<q>> : q \in PartialInputs}} :
                     c.err = NoError}}

\* the objects of the other classes, as their constructors build them
Others ==
    /\ old = OldLearningObject("author", "name")
    /\ oc = NewLearningOutcome
    /\ toc = TaggedOutcome(old)
    /\ ap = AssessmentPlan(toc)
    /\ so = BlankStandardOutcome

Init ==
    /\ subject = "LearningObject"
    /\ clock = 0
    /\ lo \in Constructed(0)
    /\ Others
    /\ ret = NoCall

Next ==
    \/ Tick
    \/ DoSetName
    \/ DoSetLength
    \/ DoAddLevel
    \/ DoRemoveLevel
    \/ DoInstantiateJson

Spec == Init /\ [][Next]_vars

\* a caller that edits the collections and the materials of a LearningObject
NextCollections ==
    \/ Tick
    \/ DoAddGoal
    \/ DoRemoveGoal
    \/ DoAddOutcome
    \/ DoRemoveOutcome
    \/ DoAddChild
    \/ DoRemoveChild
    \/ DoAddContributor
    \/ DoRemoveContributor
    \/ DoSetMaterials

\* new LearningObject()
InitBlank ==
    /\ subject = "LearningObject"
    /\ clock = 0
    /\ lo = BlankObject(0)
    /\ Others
    /\ ret = NoCall

SpecCollections == InitBlank /\ [][NextCollections]_vars

(***************************************************************************)
(* The older LearningObject and the outcomes it numbers.                   *)
(***************************************************************************)
CallOld(op, arg, r) ==
    /\ subject = "OldLearningObject"
    /\ old' = r.o
    /\ ret' = Call(op, arg, r)
    /\ UNCHANGED <<subject, clock, lo, oc, toc, ap, so>>

DoOldAddGoal ==
    /\ Len(old.goals) < MaxOwned
    /\ CallOld("addGoal", <<>>, OldAddGoal(old))

DoOldRemoveGoal ==
    \E i \in Indices : CallOld("removeGoal", i, OldRemoveGoal(old, i))

DoOldAddOutcome ==
    /\ Len(old.outcomes) < MaxOwned
    /\ CallOld("addOutcome", <<>>, OldAddOutcome(old))

DoOldRemoveOutcome ==
    \E i \in Indices : CallOld("removeOutcome", i, OldRemoveOutcome(old, i))

DoOldSetLength ==
    \E length \in LengthInputs : CallOld("length", length, OldSetLength(old, length))

InitTagged ==
    /\ subject = "OldLearningObject"
    /\ clock = 0
    /\ lo = BlankObject(0)
    /\ Others
    /\ ret = NoCall

NextTagged ==
    \/ DoOldAddGoal
    \/ DoOldRemoveGoal
    \/ DoOldAddOutcome
    \/ DoOldRemoveOutcome
    \/ DoOldSetLength

SpecTagged == InitTagged /\ [][NextTagged]_vars

(***************************************************************************)
(* The older LearningObject on its way through serialize and unserialize.  *)
(***************************************************************************)
OldTextInputs == {"", "x"}

DoOldSetName ==
    \E name \in OldTextInputs : CallOld("name", name, OldSetName(old, name))

DoOldSetDate ==
    \E date \in OldTextInputs : CallOld("date", date, OldSetDate(old, date))

DoGoalSetText ==
    \E i \in 0..(Len(old.goals) - 1), text \in OldTextInputs :
        CallOld("goal.text", <<i, text>>, GoalSetText(old, i, text))

DoOldSerialize ==
    CallOld("serialize", <<>>, Ok(old, OldSerialize(old)))

\* the texts a caller may hand to unserialize: the one serialize made of the
\* object, and that text with its length replaced by another word
MessageInputs ==
    {JsonStringify([JsonParse(OldSerialize(old)) EXCEPT !.length = length]) :
        length \in LengthInputs}

ParentInputs == {"author", "parent"}

DoOldUnserialize ==
    \E msg \in MessageInputs, parent \in ParentInputs :
        CallOld("unserialize", [msg |-> msg, parent |-> parent],
                Ok(old, OldUnserialize(msg, parent)))

InitSerial ==
    /\ subject = "OldLearningObject"
    /\ clock = 0
    /\ lo = BlankObject(0)
    /\ Others
    /\ ret = NoCall

NextSerial ==
    \/ DoOldSetName
    \/ DoOldSetDate
    \/ DoOldSetLength
    \/ DoOldAddGoal
    \/ DoOldRemoveGoal
    \/ DoGoalSetText
    \/ DoOldSerialize
    \/ DoOldUnserialize

SpecSerial == InitSerial /\ [][NextSerial]_vars

(***************************************************************************)
(* The mutators of one object of each class.                               *)
(***************************************************************************)
CallOutcome(op, arg, r) ==
    /\ subject = "LearningOutcome"
    /\ oc' = r.o
    /\ ret' = Call(op, arg, r)
    /\ UNCHANGED <<subject, clock, lo, old, toc, ap, so>>

CallTagged(op, arg, r) ==
    /\ subject = "TaggedOutcome"
    /\ toc' = r.o
    /\ ret' = Call(op, arg, r)
    /\ UNCHANGED <<subject, clock, lo, old, oc, ap, so>>

CallPlan(op, arg, r) ==
    /\ subject = "AssessmentPlan"
    /\ ap' = r.o
    /\ ret' = Call(op, arg, r)
    /\ UNCHANGED <<subject, clock, lo, old, oc, toc, so>>

CallStandard(op, arg, r) ==
    /\ subject = "StandardOutcome"
    /\ so' = r.o
    /\ ret' = Call(op, arg, r)
    /\ UNCHANGED <<subject, clock, lo, old, oc, toc, ap>>

\* the two levels of the taxonomy, the empty string and a word outside it
BloomInputs == {levels[i] : i \in 1..Len(levels)} \cup {"", "memorize"}

\* every verb of the taxonomy, the empty string and a word outside it
VerbInputs ==
    UNION {{verbs(levels[i])[j] : j \in 1..Len(verbs(levels[i]))} : i \in 1..Len(levels)}
        \cup {"", "recite"}

PlanInputs ==
    UNION {{assessments(levels[i])[j] : j \in 1..Len(assessments(levels[i]))} :
              i \in 1..Len(levels)}
        \cup {"", "exam"}

\* null or undefined, the empty string, blank text, and text with a margin
TextInputs == {Nullish, Str(<<>>), Str(<<" ">>), Str(<<"a">>), Str(<<" ", "a">>)}

MappingInputs == {"s1", "s2"}

DoOutcomeSetBloom ==
    \E bloom \in BloomInputs : CallOutcome("bloom", bloom, OutcomeSetBloom(oc, bloom))

DoOutcomeSetVerb ==
    \E verb \in VerbInputs : CallOutcome("verb", verb, OutcomeSetVerb(oc, verb))

DoOutcomeSetText ==
    \E text \in TextInputs : CallOutcome("text", text, OutcomeSetText(oc, text))

DoOutcomeMapTo ==
    /\ Len(oc.mappings) < MaxItems
    /\ \E mapping \in MappingInputs :
        CallOutcome("mapTo", mapping, OutcomeMapTo(oc, mapping))

DoOutcomeUnmap ==
    \E i \in Indices : CallOutcome("unmap", i, OutcomeUnmap(oc, i))

DoTaggedSetBloom ==
    \E bloom \in BloomInputs : CallTagged("bloom", bloom, TaggedSetBloom(toc, bloom))

DoTaggedSetVerb ==
    \E verb \in VerbInputs : CallTagged("verb", verb, TaggedSetVerb(toc, verb))

DoTaggedSetText ==
    \E text \in TextInputs \ {Nullish} :
        CallTagged("text", text, TaggedSetText(toc, text.s))

\* one call on the SubmittableLearningOutcome, which oc holds for that subject
CallSubmittable(op, arg, r) ==
    /\ subject = "SubmittableLearningOutcome"
    /\ oc' = r.o
    /\ ret' = Call(op, arg, r)
    /\ UNCHANGED <<subject, clock, lo, old, toc, ap, so>>

DoSubmittableSetText ==
    \E text \in TextInputs : CallSubmittable("text", text, SubmittableSetText(oc, text))

DoTaggedMapTo ==
    /\ Len(toc.mappings) < MaxItems
    /\ \E mapping \in MappingInputs :
        CallTagged("mapTo", mapping, TaggedMapTo(toc, mapping))

DoTaggedUnmap ==
    \E i \in Indices : CallTagged("unmap", i, TaggedUnmap(toc, i))

DoPlanSetPlan ==
    \E plan \in PlanInputs : CallPlan("plan", plan, PlanSetPlan(ap, plan))

DoPlanSetText ==
    \E text \in TextInputs \ {Nullish} : CallPlan("text", text, PlanSetText(ap, text.s))

DoStandardSetAuthor ==
    \E author \in TextInputs :
        CallStandard("author", author, StandardSetAuthor(so, author))

DoStandardSetName ==
    \E name \in TextInputs : CallStandard("name", name, StandardSetName(so, name))

DoStandardSetDate ==
    \E date \in TextInputs : CallStandard("date", date, StandardSetDate(so, date))

DoStandardSetOutcome ==
    \E outcome \in TextInputs :
        CallStandard("outcome", outcome, StandardSetOutcome(so, outcome))

DoStandardGetAuthor == CallStandard("get author", <<>>, StandardGetAuthor(so))

DoStandardGetName == CallStandard("get name", <<>>, StandardGetName(so))

DoStandardGetDate == CallStandard("get date", <<>>, StandardGetDate(so))

DoStandardGetOutcome == CallStandard("get outcome", <<>>, StandardGetOutcome(so))

StatusInputs == {"waiting", "published", "semester"}

DoSetStatus ==
    \E status \in StatusInputs : CallObject("status", status, SetStatus(lo, status))

DoPublish == CallObject("publish", <<>>, Publish(lo))

DoUnpublish == CallObject("unpublish", <<>>, Unpublish(lo))

\* the validated calls of the LearningObject with an accepted and a rejected
\* argument each
TrySetName ==
    \E name \in {Nullish, Str(<<>>), Str(<<"a", " ">>)} :
        CallObject("name", name, SetName(lo, name, clock))

TrySetLength ==
    \E length \in {"unit", "lecture"} :
        CallObject("length", length, SetLength(lo, length, clock))

TryAddLevel ==
    \E level \in {"graduate", "undergraduate", "kindergarten"} :
        CallObject("addLevel", level, AddLevel(lo, level, clock))

TryRemoveLevel ==
    \E index \in 0..1 : CallObject("removeLevel", index, RemoveLevel(lo, index, clock))

Subjects ==
    {"LearningObject", "LearningOutcome", "TaggedOutcome", "AssessmentPlan",
     "StandardOutcome", "SubmittableLearningOutcome"}

\* const someOutcome = new LearningOutcome(); someOutcome.text = validText;
\* outcome = new SubmittableLearningOutcome(someOutcome)
SubmittableUnderTest ==
    SubmittableLearningOutcome(OutcomeSetText(NewLearningOutcome, Str(<<"a">>)).o).o

\* one object of each class, the assessment plan belonging to an outcome of
\* either bloom level
InitMutators ==
    /\ subject \in Subjects
    /\ clock = 0
    /\ lo = BlankObject(0)
    /\ old = OldLearningObject("author", "name")
    /\ oc = IF subject = "SubmittableLearningOutcome" THEN SubmittableUnderTest
            ELSE NewLearningOutcome
    /\ toc = TaggedOutcome(old)
    /\ \E bloom \in {levels[i] : i \in 1..Len(levels)} :
          ap = AssessmentPlan([toc EXCEPT !.bloom = bloom])
    /\ so = BlankStandardOutcome
    /\ ret = NoCall

NextMutators ==
    \/ Tick
    \/ TrySetName
    \/ TrySetLength
    \/ TryAddLevel
    \/ TryRemoveLevel
    \/ DoSetStatus
    \/ DoPublish
    \/ DoUnpublish
    \/ DoOutcomeSetBloom
    \/ DoOutcomeSetVerb
    \/ DoOutcomeSetText
    \/ DoOutcomeMapTo
    \/ DoOutcomeUnmap
    \/ DoSubmittableSetText
    \/ DoTaggedSetBloom
    \/ DoTaggedSetVerb
    \/ DoTaggedSetText
    \/ DoTaggedMapTo
    \/ DoTaggedUnmap
    \/ DoPlanSetPlan
    \/ DoPlanSetText
    \/ DoStandardSetAuthor
    \/ DoStandardSetName
    \/ DoStandardSetDate
    \/ DoStandardSetOutcome
    \/ DoStandardGetAuthor
    \/ DoStandardGetName
    \/ DoStandardGetDate
    \/ DoStandardGetOutcome

SpecMutators == InitMutators /\ [][NextMutators]_vars

(***************************************************************************)
(* A tagged LearningOutcome and the assessment plans it owns.              *)
(***************************************************************************)
DoTaggedAddAssessment ==
    /\ Len(toc.assessments) < MaxItems
    /\ CallTagged("addAssessment", <<>>, TaggedAddAssessment(toc))

DoTaggedRemoveAssessment ==
    \E i \in Indices : CallTagged("removeAssessment", i, TaggedRemoveAssessment(toc, i))

DoAssessmentSetPlan ==
    \E k \in 1..Len(toc.assessments), plan \in PlanInputs :
        CallTagged("plan", <<k, plan>>, AssessmentSetPlan(toc, k, plan))

InitAssessments ==
    /\ subject = "TaggedOutcome"
    /\ clock = 0
    /\ lo = BlankObject(0)
    /\ Others
    /\ ret = NoCall

NextAssessments ==
    \/ DoTaggedSetBloom
    \/ DoTaggedAddAssessment
    \/ DoTaggedRemoveAssessment
    \/ DoAssessmentSetPlan

SpecAssessments == InitAssessments /\ [][NextAssessments]_vars

(***************************************************************************)
(* Objects built from plain properties.                                    *)
(***************************************************************************)
StandardKeys == {"author", "name", "date", "outcome"}

\* partial objects: a key is missing or holds the empty string, blank text or
\* proper text
StandardPartials ==
    {a @@ n @@ d @@ t :
        a \in Opt("author", {<<>>, <<" ">>, <<"a">>}),
        n \in Opt("name", {<<>>, <<" ">>, <<"a">>}),
        d \in Opt("date", {<<>>, <<"a">>}),
        t \in Opt("outcome", {<<>>, <<"a">>})}

\* so = new StandardOutcome(partial); when the constructor throws there is no
\* new object and so keeps the one it had
DoNewStandardOutcome ==
    \E partial \in StandardPartials :
        LET r == StandardOutcomeFrom(<<partial>>)
        IN  CallStandard("new StandardOutcome", partial,
                         IF r.err = NoError THEN Ok(r.o, Undefined) ELSE Throw(so, r.err))

\* the stored form of an outcome, with and without properties of other names
PropsInputs ==
    {("_tag" :> t) @@ ("_bloom" :> b) @@ ("_verb" :> v) @@ ("_text" :> <<"a">>)
        @@ ("_mappings" :> m) @@ ("_assessments" :> <<>>) @@ ("_strategies" :> <<>>)
        @@ x :
        t \in {0, 1}, b \in {levels[2], "memorize"}, v \in {"define", "recite"},
        m \in {<<>>, <<"s1">>},
        x \in {<<>>, "id" :> "x", ("id" :> "x") @@ ("note" :> "n"), "tag" :> 1,
               "bloom" :> "memorize"}}

\* toc = LearningOutcome.instantiate(old, props); when the call throws toc
\* keeps the outcome it had. The call returns the caller's props object as
\* it is afterwards
DoTaggedInstantiate ==
    \E props \in PropsInputs :
        LET r == TaggedInstantiate(old, props)
        IN  CallTagged("instantiate", props,
                       [o   |-> IF r.err = NoError THEN r.o ELSE toc,
                        err |-> r.err,
                        val |-> r.props])

\* LearningOutcome.instantiate(old, props) once more, with the object the
\* last call was given
DoTaggedInstantiateAgain ==
    /\ ret.op \in {"instantiate", "instantiate again"}
    /\ LET r == TaggedInstantiate(old, ret.val)
       IN  CallTagged("instantiate again", ret.val,
                      [o   |-> IF r.err = NoError THEN r.o ELSE toc,
                       err |-> r.err,
                       val |-> r.props])

\* a StandardOutcome, or a LearningOutcome and its source, which holds an
\* outcome tagged 0 or none
InitConstruct ==
    /\ subject \in {"StandardOutcome", "TaggedOutcome"}
    /\ clock = 0
    /\ lo = BlankObject(0)
    /\ old \in {OldLearningObject("author", "name"),
                OldAddOutcome(OldLearningObject("author", "name")).o}
    /\ oc = NewLearningOutcome
    /\ toc = TaggedOutcome(old)
    /\ ap = AssessmentPlan(toc)
    /\ so = BlankStandardOutcome
    /\ ret = NoCall

NextConstruct ==
    \/ DoNewStandardOutcome
    \/ DoTaggedInstantiate
    \/ DoTaggedInstantiateAgain

SpecConstruct == InitConstruct /\ [][NextConstruct]_vars

(***************************************************************************)
(* Properties.                                                             *)
(***************************************************************************)
\* s without its k-th element (1-based)
RemoveAt(s, k) == [j \in 1..(Len(s) - 1) |-> IF j < k THEN s[j] ELSE s[j + 1]]

\* the 1-based position a 0-based index i < Len(s) addresses; a negative index
\* counts from the end and is clamped to the first element
Addressed(s, i) == IF i < 0 THEN Max(Len(s) + i, 0) + 1 ELSE i + 1

\* C1, as stated: levels is never empty; removeLevel(i) with one level fails
\* with INVALID_LEVELS and leaves levels unchanged; removeLevel(i) with two or
\* more levels succeeds, removes one element and returns the removed element.
C1_AnyIndexRemoves ==
    /\ [](Len(lo.levels) >= 1)
    /\ [][ret'.op = "removeLevel" /\ DoRemoveLevel =>
            /\ Len(lo.levels) = 1 =>
                   ret'.err = "INVALID_LEVELS" /\ lo'.levels = lo.levels
            /\ Len(lo.levels) >= 2 =>
                   /\ ret'.err = NoError
                   /\ Len(lo'.levels) = Len(lo.levels) - 1
                   /\ Len(ret'.val) = 1]_vars

\* C1, amended: levels is never empty; removeLevel(i) with one level fails
\* with INVALID_LEVELS and leaves levels unchanged; removeLevel(i) with n >= 2
\* levels succeeds, and when i < n it removes exactly the element i addresses
\* and returns it, while for i >= n it removes nothing and returns undefined.
C1_LevelsNeverEmpty ==
    /\ [](Len(lo.levels) >= 1)
    /\ [][ret'.op = "removeLevel" /\ DoRemoveLevel =>
            LET n == Len(lo.levels)
                i == ret'.arg
            IN  /\ n = 1 => ret'.err = "INVALID_LEVELS" /\ lo'.levels = lo.levels
                /\ n >= 2 /\ i < n =>
                       /\ ret'.err = NoError
                       /\ ret'.val = <<lo.levels[Addressed(lo.levels, i)]>>
                       /\ lo'.levels = RemoveAt(lo.levels, Addressed(lo.levels, i))
                /\ n >= 2 /\ i >= n =>
                       /\ ret'.err = NoError
                       /\ ret'.val = <<>>
                       /\ lo'.levels = lo.levels]_vars

\* a removeLevel call that took a level out of three and returned it
C1_Witness ==
    /\ ret.op = "removeLevel"
    /\ ret.err = NoError
    /\ ret.val = <<"graduate">>
    /\ Len(lo.levels) = 2

FiveLengths == {"nanomodule", "micromodule", "module", "unit", "course"}

\* C2: the length setter stores each of the five valid lengths; any other
\* value fails with INVALID_LENGTH and length keeps its prior value; length
\* is one of the five values in every state.
C2_LengthValidated ==
    /\ [](lo.length \in FiveLengths)
    /\ [][ret'.op = "length" /\ DoSetLength =>
            IF ret'.arg \in FiveLengths
            THEN ret'.err = NoError /\ lo'.length = ret'.arg
            ELSE ret'.err = "INVALID_LENGTH" /\ lo'.length = lo.length]_vars

\* an invalid length was refused while the object held a length it was given
C2_Witness ==
    /\ ret.op = "length"
    /\ ret.arg = "lecture"
    /\ ret.err = "INVALID_LENGTH"
    /\ lo.length = "course"

\* C3, as stated: instantiate applied to the JSON copy of a LearningObject
\* returns, without throwing, an object with the same name, length and status
\* and with goals, outcomes and children of the same lengths.
C3_JsonRoundTrip ==
    [][ret'.op = "instantiate" /\ DoInstantiateJson =>
        /\ ret'.err = NoError
        /\ lo'.name = lo.name
        /\ lo'.length = lo.length
        /\ lo'.status = lo.status
        /\ Len(lo'.goals) = Len(lo.goals)
        /\ Len(lo'.outcomes) = Len(lo.outcomes)
        /\ Len(lo'.children) = Len(lo.children)]_vars

\* C6: for goals, outcomes, children and contributors, addX(v) followed by
\* removeX with the index addX returned leaves the collection as it was
\* before addX, and removeX returns the element addX appended.
C6_AddThenRemove ==
    [][/\ ret.op = "addGoal" /\ ret'.op = "removeGoal" /\ ret'.arg = ret.val[1]
             /\ DoRemoveGoal =>
            /\ lo'.goals = ret.pre.goals
            /\ ret'.val = <<[text |-> ret.arg]>>
       /\ ret.op = "addOutcome" /\ ret'.op = "removeOutcome" /\ ret'.arg = ret.val[1]
             /\ DoRemoveOutcome =>
            /\ lo'.outcomes = ret.pre.outcomes
            /\ ret'.val = IF ret.arg = <<>> THEN <<NewLearningOutcome>> ELSE ret.arg
       /\ ret.op = "addChild" /\ ret'.op = "removeChild" /\ ret'.arg = ret.val[1]
             /\ DoRemoveChild =>
            /\ lo'.children = ret.pre.children
            /\ ret'.val = <<ret.arg>>
       /\ ret.op = "addContributor" /\ ret'.op = "removeContributor"
             /\ ret'.arg = ret.val[1] /\ DoRemoveContributor =>
            /\ lo'.contributors = ret.pre.contributors
            /\ ret'.val = <<ret.arg>>]_vars

\* removeChild was called with the index at which child2 had been appended
\* after child1, and returned child2
C6_Witness ==
    /\ ret.op = "removeChild"
    /\ ret.pre.children = <<"child1", "child2">>
    /\ ret.arg = 1
    /\ ret.val = <<"child2">>
    /\ lo.children = <<"child1">>

ListedMutation ==
    \/ DoSetName \/ DoSetLength \/ DoAddLevel \/ DoRemoveLevel
    \/ DoAddGoal \/ DoRemoveGoal \/ DoAddOutcome \/ DoRemoveOutcome
    \/ DoSetMaterials \/ DoAddChild \/ DoRemoveChild
    \/ DoAddContributor \/ DoRemoveContributor

\* C10, as stated: every successful mutation of name, length, levels, goals,
\* outcomes, materials, children or contributors sets date to the current
\* time, and no other operation changes date.
C10_DateFollowsMutation ==
    [][/\ ListedMutation /\ ret'.err = NoError => lo'.date = clock
       /\ lo'.date # lo.date => ListedMutation /\ ret'.err = NoError]_vars

\* the tags in use in a list of outcomes
Tags(outcomes) == {outcomes[i].tag : i \in 1..Len(outcomes)}

\* the smallest non-negative integer outside the finite set S
Mex(S) == CHOOSE n \in 0..Cardinality(S) : n \notin S /\ \A m \in 0..(n - 1) : m \in S

\* C4: an outcome constructed with a LearningObject source whose outcomes use
\* the tags S gets the smallest non-negative integer not in S as its tag, and
\* the search ends: it scans the list at most once more than the list is long
C4_SmallestUnusedTag ==
    [][ret'.op = "addOutcome" /\ DoOldAddOutcome =>
          /\ ret'.val[1].tag = Mex(Tags(old.outcomes))
          /\ old'.outcomes = Append(old.outcomes, ret'.val[1])
          /\ TagSearch(old.outcomes).scans <= Len(old.outcomes) + 1]_vars

\* an outcome was added to the list tagged 1, 0: the search met tag 0 behind
\* tag 1, started over twice and settled on 2
C4_Witness ==
    /\ ret.op = "addOutcome"
    /\ Len(old.outcomes) = 3
    /\ old.outcomes[1].tag = 1
    /\ old.outcomes[2].tag = 0
    /\ old.outcomes[3].tag = 2
    /\ ret.val[1].tag = 2

\* C5: after any sequence of addOutcome and removeOutcome calls on one
\* LearningObject the tags of the outcomes in its list are pairwise distinct
C5_TagsDistinct ==
    \A i, j \in 1..Len(old.outcomes) :
        old.outcomes[i].tag = old.outcomes[j].tag => i = j

\* outcomes were removed and added again: the list is full and out of order
C5_Witness ==
    /\ ret.op = "addOutcome"
    /\ Len(old.outcomes) = MaxOwned
    /\ old.outcomes[1].tag > old.outcomes[MaxOwned].tag

\* C8: the verb setter of either LearningOutcome class stores a value exactly
\* when it is in the taxonomy's verb list of the outcome's bloom at the time
\* of the call; any other value fails with InvalidVerb and verb is unchanged
C8_VerbOfCurrentBloom ==
    /\ [][ret'.op = "verb" /\ DoOutcomeSetVerb =>
             IF Includes(verbs(oc.bloom), ret'.arg)
             THEN ret'.err = NoError /\ oc' = [oc EXCEPT !.verb = ret'.arg]
             ELSE ret'.err = "INVALID_VERB" /\ oc'.verb = oc.verb]_vars
    /\ [][ret'.op = "verb" /\ DoTaggedSetVerb =>
             IF Includes(verbs(toc.bloom), ret'.arg)
             THEN ret'.err = NoError /\ toc' = [toc EXCEPT !.verb = ret'.arg]
             ELSE ret'.err = "INVALID_VERB" /\ toc'.verb = toc.verb]_vars

\* the bloom was changed away from the constructor's and a verb of the first
\* level, which the new level does not list, was refused
C8_Witness ==
    /\ subject = "LearningOutcome"
    /\ oc.bloom = levels[2]
    /\ oc.verb = verbs(levels[2])[1]
    /\ ret.op = "verb"
    /\ ret.arg = verbs(levels[1])[1]
    /\ ret.err = "INVALID_VERB"

\* C9: a call that throws leaves every field of every object, date and the
\* published flag included, as it was before the call
C9_ThrowLeavesFields ==
    [][ret'.err # NoError => UNCHANGED <<lo, old, oc, toc, ap, so>>]_vars

\* a length was refused after an accepted one, at a later time than the
\* object's date
C9_Witness ==
    /\ subject = "LearningObject"
    /\ ret.op = "length"
    /\ ret.err = "INVALID_LENGTH"
    /\ lo.length = "unit"
    /\ lo.date < clock

\* C11, as stated: assigning "published" to the status of a LearningObject
\* whose status is already "published" returns, and leaves status
\* "published" and the published flag true.
C11_RepublishReturns ==
    [][ret'.op = "status" /\ ret'.arg = "published" /\ lo.status = "published"
           /\ DoSetStatus =>
          /\ ret'.err = NoError
          /\ lo'.status = "published"
          /\ lo'.published]_vars

\* C12, as stated: from any reachable state publish() returns with the
\* published flag true and status "published", unpublish() returns with the
\* flag false and status unchanged, and neither changes any other field.
C12_PublishUnpublish ==
    [][/\ ret'.op = "publish" /\ DoPublish =>
            /\ ret'.err = NoError
            /\ lo' = [lo EXCEPT !.published = TRUE, !.status = "published"]
       /\ ret'.op = "unpublish" /\ DoUnpublish =>
            /\ ret'.err = NoError
            /\ lo' = [lo EXCEPT !.published = FALSE]]_vars

\* C13: addLevel(level) fails with LevelAlreadyExists when level is in
\* levels, fails with InvalidLevel when level is no AcademicLevel value, and
\* otherwise appends level at the end; levels never holds a duplicate.
C13_AddLevelNoDuplicate ==
    /\ [](\A i, j \in 1..Len(lo.levels) : lo.levels[i] = lo.levels[j] => i = j)
    /\ [][ret'.op = "addLevel" /\ DoAddLevel =>
            IF Includes(lo.levels, ret'.arg)
            THEN ret'.err = "LEVEL_EXISTS" /\ lo'.levels = lo.levels
            ELSE IF ret'.arg \notin AcademicLevel
            THEN ret'.err = "INVALID_LEVEL" /\ lo'.levels = lo.levels
            ELSE ret'.err = NoError /\ lo'.levels = Append(lo.levels, ret'.arg)]_vars

\* a level removed from the front and added again sits at the end, and adding
\* it once more was refused
C13_Witness ==
    /\ ret.op = "addLevel"
    /\ ret.arg = "undergraduate"
    /\ ret.err = "LEVEL_EXISTS"
    /\ lo.levels = <<"graduate", "high", "undergraduate">>

\* C14, as stated: mapTo on a LearningOutcome of either class with n
\* mappings appends the mapping at the end and returns n + 1.
C14_MapToReturnsLength ==
    [][/\ ret'.op = "mapTo" /\ DoTaggedMapTo =>
            /\ toc'.mappings = Append(toc.mappings, ret'.arg)
            /\ ret'.val = <<Len(toc.mappings) + 1>>
       /\ ret'.op = "mapTo" /\ DoOutcomeMapTo =>
            /\ oc'.mappings = Append(oc.mappings, ret'.arg)
            /\ ret'.val = <<Len(oc.mappings) + 1>>]_vars

\* C14, amended: mapTo with n mappings appends the mapping at the end,
\* duplicates allowed; the tagged LearningOutcome returns n + 1, the length
\* after the append, and the LearningOutcome of lib/learning-outcome/ returns
\* n, the 0-based index of the appended mapping.
C14_MapToReturn ==
    [][/\ ret'.op = "mapTo" /\ DoTaggedMapTo =>
            /\ toc'.mappings = Append(toc.mappings, ret'.arg)
            /\ ret'.val = <<Len(toc.mappings) + 1>>
       /\ ret'.op = "mapTo" /\ DoOutcomeMapTo =>
            /\ oc'.mappings = Append(oc.mappings, ret'.arg)
            /\ ret'.val = <<Len(oc.mappings)>>]_vars

\* the same standard outcome was mapped twice and the second call returned 1
C14_Witness ==
    /\ subject = "LearningOutcome"
    /\ ret.op = "mapTo"
    /\ ret.arg = "s1"
    /\ ret.val = <<1>>
    /\ oc.mappings = <<"s1", "s1">>

\* all four fields of the StandardOutcome hold a value a setter stored
AllSet == so.author # <<>> /\ so.name # <<>> /\ so.date # <<>> /\ so.outcome # <<>>

\* C15, as stated: once author, name, date and outcome of a StandardOutcome
\* have each been set, each getter returns the value last stored in its own
\* field, independently of author.
C15_GettersOwnField ==
    [][/\ AllSet /\ ret'.op = "get author" /\ DoStandardGetAuthor =>
            ret'.val = <<so.author>>
       /\ AllSet /\ ret'.op = "get name" /\ DoStandardGetName =>
            ret'.val = <<so.name>>
       /\ AllSet /\ ret'.op = "get date" /\ DoStandardGetDate =>
            ret'.val = <<so.date>>
       /\ AllSet /\ ret'.op = "get outcome" /\ DoStandardGetOutcome =>
            ret'.val = <<so.outcome>>]_vars

\* C16: assigning the empty string to the text of a SubmittableLearningOutcome
\* built from a LearningOutcome with valid text throws INVALID_TEXT; the text
\* it held stays
C16_EmptyTextRejected ==
    [][ret'.op = "text" /\ ret'.arg = Str(<<>>) /\ DoSubmittableSetText =>
          /\ ret'.err = "INVALID_TEXT"
          /\ oc' = oc]_vars

\* the empty string was assigned and refused, the valid text is still there
C16_Witness ==
    /\ subject = "SubmittableLearningOutcome"
    /\ ret.op = "text"
    /\ ret.arg = Str(<<>>)
    /\ ret.err = "INVALID_TEXT"
    /\ oc.text = <<"a">>

\* C17: an AssessmentPlan validates against the bloom captured when it was
\* constructed: addAssessment() gives the plan the outcome's bloom of that
\* moment, no later bloom change touches the plans, and the plan setter
\* accepts exactly the kinds in assessments[sourceBloom]
C17_SourceBloomSnapshot ==
    /\ [][ret'.op = "addAssessment" /\ DoTaggedAddAssessment =>
             /\ ret'.val[1].sourceBloom = toc.bloom
             /\ toc'.assessments = Append(toc.assessments, ret'.val[1])]_vars
    /\ [][ret'.op = "bloom" /\ DoTaggedSetBloom =>
             toc'.assessments = toc.assessments]_vars
    /\ [][ret'.op = "plan" /\ DoAssessmentSetPlan =>
             LET k    == ret'.arg[1]
                 plan == toc.assessments[k]
             IN  /\ toc'.assessments[k].sourceBloom = plan.sourceBloom
                 /\ IF Includes(assessments(plan.sourceBloom), ret'.arg[2])
                    THEN ret'.err = NoError /\ toc'.assessments[k].plan = ret'.arg[2]
                    ELSE ret'.err = "INVALID_PLAN" /\ toc' = toc]_vars

\* a plan created under the first level took a kind that only the first
\* level lists, while the outcome's bloom was the second level
C17_Witness ==
    /\ ret.op = "plan"
    /\ ret.err = NoError
    /\ toc.bloom = levels[2]
    /\ Len(toc.assessments) >= 1
    /\ toc.assessments[1].sourceBloom = levels[1]
    /\ ret.arg = <<1, assessments(levels[1])[1]>>
    /\ ~Includes(assessments(levels[2]), assessments(levels[1])[1])

\* C18: the bloom setter of either LearningOutcome class, given a level of
\* the taxonomy, changes bloom and nothing else, the verb included; given
\* anything else it fails with InvalidBloom and bloom is unchanged
C18_BloomSetterFrame ==
    /\ [][ret'.op = "bloom" /\ DoOutcomeSetBloom =>
             IF Includes(levels, ret'.arg)
             THEN ret'.err = NoError /\ oc' = [oc EXCEPT !.bloom = ret'.arg]
             ELSE ret'.err = "INVALID_BLOOM" /\ oc' = oc]_vars
    /\ [][ret'.op = "bloom" /\ DoTaggedSetBloom =>
             IF Includes(levels, ret'.arg)
             THEN ret'.err = NoError /\ toc' = [toc EXCEPT !.bloom = ret'.arg]
             ELSE ret'.err = "INVALID_BLOOM" /\ toc' = toc]_vars

\* the bloom setter left the outcome with a verb its new bloom does not list
C18_Witness ==
    /\ subject = "LearningOutcome"
    /\ ret.op = "bloom"
    /\ ret.err = NoError
    /\ oc.bloom = ret.arg
    /\ ~Includes(verbs(oc.bloom), oc.verb)

\* C19, as stated: constructing a StandardOutcome from any partial object
\* never throws; every field present and truthy in the partial is copied and
\* every missing or falsy field keeps the empty-string default.
C19_ConstructNeverThrows ==
    [][ret'.op = "new StandardOutcome" /\ DoNewStandardOutcome =>
          /\ ret'.err = NoError
          /\ \A key \in StandardKeys :
                so'[key] = IF Has(ret'.arg, key) THEN ret'.arg[key] ELSE <<>>]_vars

\* C20, as stated: LearningOutcome.instantiate(source, props) returns an
\* outcome whose tag, bloom, verb and text are those of props, unvalidated,
\* and on which every key of props other than the seven known keys is present
\* with the same value.
C20_InstantiateCopiesProps ==
    [][ret'.op = "instantiate" /\ DoTaggedInstantiate =>
          /\ ret'.err = NoError
          /\ toc'.tag = ret'.arg["_tag"]
          /\ toc'.bloom = ret'.arg["_bloom"]
          /\ toc'.verb = ret'.arg["_verb"]
          /\ toc'.text = ret'.arg["_text"]
          /\ \A key \in DOMAIN ret'.arg \ KnownKeys :
                key \in DOMAIN toc' /\ toc'[key] = ret'.arg[key]]_vars

\* the round trip of unserialize over serialize: same name, date, length and
\* goal texts, every goal owned by the rebuilt object
RoundTrips(e, rebuilt) ==
    /\ rebuilt.name = e.name
    /\ rebuilt.date = e.date
    /\ rebuilt.length = e.length
    /\ Len(rebuilt.goals) = Len(e.goals)
    /\ \A i \in 1..Len(e.goals) :
        /\ rebuilt.goals[i].text = e.goals[i].text
        /\ rebuilt.goals[i].source = rebuilt.name

\* C21: unserialize rejects a message whose length is not one of the valid
\* lengths, and unserialize of serialize(e) has e's name, date, length and
\* goal texts, each goal's source being the rebuilt object
C21_UnserializeInverse ==
    ret.op = "unserialize" =>
        /\ ~Includes(lengths, JsonParse(ret.arg.msg).length) => ret.err # NoError
        /\ ret.arg.msg = OldSerialize(old) => RoundTrips(old, ret.val)

\* C22: from a default-constructed object, through the status setter,
\* publish() and unpublish(), a true published flag implies status
\* 'published', and a status that is 'published' stays 'published'
C22_PublishedAbsorbs ==
    /\ [](lo.published => lo.status = "published")
    /\ [][lo.status = "published" => lo'.status = "published"]_vars

\* a published object on which another status was assigned afterwards
C22_Witness ==
    /\ ret.op = "status"
    /\ ret.arg = "waiting"
    /\ lo.status = "published"
    /\ lo.published

\* C23: instantiate(source, props) leaves props as it was, and a second
\* call with the same props object returns an outcome equal to the first
C23_InstantiateKeepsProps ==
    [][/\ ret'.op = "instantiate" /\ DoTaggedInstantiate => ret'.val = ret'.arg
       /\ ret'.op = "instantiate again" /\ DoTaggedInstantiateAgain /\ ret.err = NoError =>
            /\ ret'.err = NoError
            /\ toc' = toc]_vars

====
